---- MODULE Spec2Model ----
(***************************************************************************)
(* Breakeven and projection engine of profit_calculator.py.                *)
(*                                                                         *)
(* Python values are modelled as records: None, float('inf') and numbers.  *)
(* A number is a rational n/d in lowest terms with d > 0.  A binary float  *)
(* holds a dyadic value (d a power of two) itself and any other value by a *)
(* neighbour of it: where the result of math.ceil or round depends on      *)
(* which neighbour it is, the model allows each of them.                   *)
(***************************************************************************)
EXTENDS Integers, Sequences, FiniteSets, TLC

\* fn: the function called; args: its arguments; ret: the values it returned
\* (a tuple for the calculators, the rows for generate_projections); exc: the
\* exception it raised; saved_scenario: st.session_state.saved_scenario
VARIABLES fn, args, ret, exc, saved_scenario

vars == <<fn, args, ret, exc, saved_scenario>>

(***************************************************************************)
(* Python values                                                           *)
(***************************************************************************)
None == [t |-> "None"]

Inf == [t |-> "inf"]

RECURSIVE GCD(_, _)
GCD(a, b) == IF b = 0 THEN a ELSE GCD(b, a % b)

Abs(i) == IF i < 0 THEN -i ELSE i

\* the rational n/d (d # 0) in lowest terms
Rat(n, d) ==
    LET g == GCD(Abs(n), Abs(d))
        s == IF d < 0 THEN -1 ELSE 1
    IN  [t |-> "num", n |-> s * (n \div g), d |-> s * (d \div g)]

Num(i) == [t |-> "num", n |-> i, d |-> 1]

IsNone(x) == x.t = "None"

IsNum(x) == x.t = "num"

Add(x, y) ==
    LET g == GCD(x.d, y.d)
    IN  Rat(x.n * (y.d \div g) + y.n * (x.d \div g), (x.d \div g) * y.d)

Neg(x) == [t |-> "num", n |-> -x.n, d |-> x.d]

Sub(x, y) == Add(x, Neg(y))

Mul(x, y) ==
    LET g1 == GCD(Abs(x.n), y.d)
        g2 == GCD(Abs(y.n), x.d)
    IN  Rat((x.n \div g1) * (y.n \div g2), (x.d \div g2) * (y.d \div g1))

\* x / y for y # 0
Div(x, y) == Mul(x, Rat(y.d, y.n))

\* x < y, by whole parts first and then by the fractions
Lt(x, y) ==
    LET qx == x.n \div x.d
        qy == y.n \div y.d
    IN  \/ qx < qy
        \/ qx = qy /\ (x.n % x.d) * y.d < (y.n % y.d) * x.d

Le(x, y) == ~Lt(y, x)

\* Python's ==: None equals no number
PyEq(x, y) == x = y

\* math.ceil: the least integer >= x
Ceil(x) == Num(-((-x.n) \div x.d))

RECURSIVE IsPowerOfTwo(_)
IsPowerOfTwo(d) == IF d = 1 THEN TRUE ELSE d % 2 = 0 /\ IsPowerOfTwo(d \div 2)

\* the float holds x itself
Dyadic(x) == IsPowerOfTwo(x.d)

\* math.ceil(x / y) for y # 0; exact: the floats behind x and y hold them
\* exactly.  A quotient that is not whole, and a whole quotient of exact
\* operands, has the ceiling of its value; a whole quotient k of inexact
\* operands is the float k or a neighbour of k, with ceiling k or k + 1.
CeilOfQuotient(x, y, exact) ==
    LET q == Div(x, y)
    IN  IF exact \/ q.d # 1
        THEN {Ceil(q)}
        ELSE {Ceil(q), Add(Ceil(q), Num(1))}

(***************************************************************************)
(* calculate_breakeven and calculate_orders_for_profit                     *)
(***************************************************************************)
\* the test of line 19 mutated from >= into >
MarginNotPositiveStrict(price_per_order, variable_cost) ==
    Lt(price_per_order, variable_cost)

\* line 19 and line 37: variable cost >= price
MarginNotPositive(price_per_order, variable_cost) ==
    Le(price_per_order, variable_cost)

\* the precondition mutated to let a zero price through
BadInputsZeroPrice(total_fixed_costs, price_per_order, variable_cost) ==
    \/ IsNone(price_per_order) \/ IsNone(variable_cost) \/ IsNone(total_fixed_costs)
    \/ Lt(price_per_order, Num(0)) \/ Lt(variable_cost, Num(0))
    \/ Lt(total_fixed_costs, Num(0))

\* lines 15-18 and 33-36: an input is None, or price <= 0, or a cost < 0
BadInputs(total_fixed_costs, price_per_order, variable_cost) ==
    \/ IsNone(price_per_order) \/ IsNone(variable_cost) \/ IsNone(total_fixed_costs)
    \/ Le(price_per_order, Num(0)) \/ Lt(variable_cost, Num(0))
    \/ Lt(total_fixed_costs, Num(0))

\* the results <<breakeven orders, contribution margin>> the call can return
calculate_breakeven(total_fixed_costs, price_per_order, variable_cost) ==
    IF BadInputs(total_fixed_costs, price_per_order, variable_cost)
    THEN {<<None, None>>}
    ELSE IF MarginNotPositive(price_per_order, variable_cost)
    THEN {<<None, Sub(price_per_order, variable_cost)>>}
    ELSE LET contribution_margin == Sub(price_per_order, variable_cost)
             exact == /\ Dyadic(total_fixed_costs) /\ Dyadic(price_per_order)
                      /\ Dyadic(variable_cost)
         IN  IF PyEq(contribution_margin, Num(0))
             THEN {<<Inf, contribution_margin>>}
             ELSE IF PyEq(total_fixed_costs, Num(0))
             THEN {<<Num(0), contribution_margin>>}
             ELSE {<<orders, contribution_margin>> :
                      orders \in CeilOfQuotient(total_fixed_costs,
                                                contribution_margin, exact)}

\* the results the call can return
calculate_orders_for_profit(total_fixed_costs, price_per_order, variable_cost, target_profit) ==
    IF \/ IsNone(total_fixed_costs) \/ IsNone(price_per_order)
       \/ IsNone(variable_cost) \/ IsNone(target_profit)
       \/ Le(target_profit, Num(0))
    THEN {None}
    ELSE IF BadInputs(total_fixed_costs, price_per_order, variable_cost)
    THEN {None}
    ELSE IF MarginNotPositive(price_per_order, variable_cost)
    THEN {None}
    ELSE LET contribution_margin == Sub(price_per_order, variable_cost)
             exact == /\ Dyadic(total_fixed_costs) /\ Dyadic(price_per_order)
                      /\ Dyadic(variable_cost) /\ Dyadic(target_profit)
         IN  IF PyEq(contribution_margin, Num(0))
             THEN {Inf}
             ELSE CeilOfQuotient(Add(total_fixed_costs, target_profit),
                                 contribution_margin, exact)

(***************************************************************************)
(* Inputs                                                                  *)
(***************************************************************************)
MaxAmount == 4

AVG_DAYS_PER_MONTH == 30

DefaultMarketerPayment == 3000

DefaultAdsSpendDaily == 300

DefaultPrice == 450

DefaultVariableCost == 390

DefaultTargetProfit == 1000

\* the total monthly fixed costs of the default inputs (lines 138-139)
DefaultFixedCosts ==
    DefaultMarketerPayment + DefaultAdsSpendDaily * AVG_DAYS_PER_MONTH

Amounts(defaults) ==
    {None} \cup {Num(i) : i \in (-1..MaxAmount) \cup defaults}

\* a price with cents, which the price field takes (lines 144-147)
CentPrice == Rat(201, 100)

Prices == Amounts({DefaultPrice}) \cup {CentPrice}

(***************************************************************************)
(* Calls of the breakeven engine.  The functions are pure: one call is     *)
(* made from the initial state, with any arguments of the input sets.      *)
(***************************************************************************)
Init ==
    /\ fn = "none"
    /\ args = <<>>
    /\ ret = <<>>
    /\ exc = "none"
    /\ saved_scenario = None

CallCalculateBreakeven ==
    \E fc \in Amounts({DefaultFixedCosts}),
       p \in Prices,
       v \in Amounts({DefaultVariableCost, DefaultPrice}) :
        /\ fn = "none"
        /\ fn' = "calculate_breakeven"
        /\ args' = [total_fixed_costs |-> fc, price_per_order |-> p,
                    variable_cost |-> v]
        /\ ret' \in calculate_breakeven(fc, p, v)
        /\ exc' = "none"
        /\ UNCHANGED saved_scenario

CallCalculateOrdersForProfit ==
    \E fc \in Amounts({DefaultFixedCosts}),
       p \in Prices,
       v \in Amounts({DefaultVariableCost, DefaultPrice}),
       tp \in Amounts({DefaultTargetProfit}) :
        /\ fn = "none"
        /\ fn' = "calculate_orders_for_profit"
        /\ args' = [total_fixed_costs |-> fc, price_per_order |-> p,
                    variable_cost |-> v, target_profit |-> tp]
        /\ \E orders \in calculate_orders_for_profit(fc, p, v, tp) :
               ret' = <<orders>>
        /\ exc' = "none"
        /\ UNCHANGED saved_scenario

Next ==
    \/ CallCalculateBreakeven
    \/ CallCalculateOrdersForProfit

Spec == Init /\ [][Next]_vars

(***************************************************************************)
(* Floats of generate_projections.  A float is its value v together with   *)
(* exact: whether the binary float holds v itself rather than a neighbour. *)
(* Whole inputs are exact; a result is exact when its operands are and it  *)
(* is dyadic (its denominator is a power of two), and an exact zero gives  *)
(* x * 0 = 0, 0 / x = 0 and x + 0 = x.                                     *)
(***************************************************************************)
Str(s) == [t |-> "str", s |-> s]

Float(x) == [v |-> x, exact |-> TRUE]

IsExactZero(a) == a.exact /\ a.v.n = 0

FResult(x, a, b) == [v |-> x, exact |-> a.exact /\ b.exact /\ Dyadic(x)]

FMul(a, b) ==
    IF IsExactZero(a) \/ IsExactZero(b)
    THEN Float(Num(0))
    ELSE FResult(Mul(a.v, b.v), a, b)

FDiv(a, b) ==
    IF IsExactZero(a)
    THEN Float(Num(0))
    ELSE FResult(Div(a.v, b.v), a, b)

FAdd(a, b) ==
    IF IsExactZero(a) THEN b
    ELSE IF IsExactZero(b) THEN a
    ELSE FResult(Add(a.v, b.v), a, b)

FSub(a, b) == FAdd(a, [v |-> Neg(b.v), exact |-> b.exact])

Pow10(ndigits) == IF ndigits = 1 THEN 10 ELSE 100

\* round(x, ndigits): the results round() can give for the float x.  It is the
\* nearest multiple of 10^-ndigits; when v lies midway between two of them, an
\* exact float goes to the even one, and a float that is only a neighbour of v
\* goes to the side it lies on, which the value does not tell
RoundPy(x, ndigits) ==
    LET scale == Pow10(ndigits)
        q == x.v.n \div x.v.d
        r == x.v.n % x.v.d
        k == (r * scale) \div x.v.d
        rest == (r * scale) % x.v.d
        m == q * scale + k
    IN  IF 2 * rest < x.v.d THEN {Rat(m, scale)}
        ELSE IF 2 * rest > x.v.d THEN {Rat(m + 1, scale)}
        ELSE IF ~x.exact THEN {Rat(m, scale), Rat(m + 1, scale)}
        ELSE IF m % 2 = 0 THEN {Rat(m, scale)}
        ELSE {Rat(m + 1, scale)}

(***************************************************************************)
(* generate_projections                                                    *)
(***************************************************************************)
\* line 73
num_weeks_this_month == 4

\* line 61 mutated to 12 / 52
weeks_per_month_avg_Inverted == FDiv(Float(Num(12)), Float(Num(52)))

\* line 61: 52 / 12
weeks_per_month_avg == FDiv(Float(Num(52)), Float(Num(12)))

\* line 63
fixed_costs_weekly(total_fixed_costs_monthly) ==
    IF Lt(Num(0), weeks_per_month_avg.v)
    THEN FDiv(Float(total_fixed_costs_monthly), weeks_per_month_avg)
    ELSE Float(Num(0))

\* line 71: 1 + monthly_growth_rate_pct / 100.0
GrowthFactor(monthly_growth_rate_pct) ==
    FAdd(Float(Num(1)), FDiv(Float(monthly_growth_rate_pct), Float(Num(100))))

\* lines 70-71 mutated to grow the volume in the first month too
GrowMonthlyOrdersEveryMonth(current_monthly_orders, month, monthly_growth_rate_pct) ==
    FMul(current_monthly_orders, GrowthFactor(monthly_growth_rate_pct))

\* lines 70-71: from the second month on the volume is multiplied by 1 + g/100
GrowMonthlyOrders(current_monthly_orders, month, monthly_growth_rate_pct) ==
    IF month > 1
    THEN FMul(current_monthly_orders, GrowthFactor(monthly_growth_rate_pct))
    ELSE current_monthly_orders

\* line 74
OrdersPerWeek(current_monthly_orders) ==
    IF num_weeks_this_month > 0
    THEN FDiv(current_monthly_orders, Float(Num(num_weeks_this_month)))
    ELSE Float(Num(0))

\* lines 77-81: the floats of one week.  They depend on the month alone, so the
\* four weeks of a month compute the same floats
WeekValues(orders_per_week, a, fcw) ==
    LET simulated_orders == orders_per_week
        revenue == FMul(simulated_orders, Float(a.price_per_order))
        total_variable_costs == FMul(simulated_orders, Float(a.variable_cost))
    IN  [simulated_orders |-> simulated_orders,
         revenue |-> revenue,
         total_variable_costs |-> total_variable_costs,
         fixed_costs_weekly |-> fcw,
         profit |-> FSub(FSub(revenue, total_variable_costs), fcw)]

\* lines 86-90: the rounded fields of a week's row, the same in the four weeks
\* of a month (round() of the same float); fcw_rounded is round() of the one
\* fixed_costs_weekly float of the call
RoundedWeek(w, fcw_rounded) ==
    {[Projected_Orders_Weekly |-> o, Revenue_Weekly |-> r,
      Variable_Costs_Weekly |-> c, Fixed_Costs_Weekly |-> fcw_rounded,
      Profit_Weekly |-> pr] :
        o \in RoundPy(w.simulated_orders, 1),
        r \in RoundPy(w.revenue, 2),
        c \in RoundPy(w.total_variable_costs, 2),
        pr \in RoundPy(w.profit, 2)}

\* line 82 mutated to overwrite the tracker
AccumulateProfitOverwrite(cumulative_profit_tracker, profit) == profit

\* line 82: cumulative_profit_tracker += profit
AccumulateProfit(cumulative_profit_tracker, profit) ==
    FAdd(cumulative_profit_tracker, profit)

\* line 93 mutated to count the weeks of each month from 1
NextWeekCounterPerMonth(global_week_counter) ==
    IF global_week_counter % num_weeks_this_month = 0
    THEN 1
    ELSE global_week_counter + 1

\* line 93: global_week_counter += 1
NextWeekCounter(global_week_counter) == global_week_counter + 1

\* lines 82-93: the rest of one pass of the loop over the weeks; st holds
\* projection_data, global_week_counter and cumulative_profit_tracker, and
\* cumulative_rounded is round(cumulative_profit_tracker, 2) of line 91
WeekBody(st, month, rounded, tracker, cumulative_rounded) ==
    [projection_data |->
        Append(st.projection_data,
               [Month |-> Num(month),
                Global_Week |-> Num(st.global_week_counter),
                Projected_Orders_Weekly |-> rounded.Projected_Orders_Weekly,
                Revenue_Weekly |-> rounded.Revenue_Weekly,
                Variable_Costs_Weekly |-> rounded.Variable_Costs_Weekly,
                Fixed_Costs_Weekly |-> rounded.Fixed_Costs_Weekly,
                Profit_Weekly |-> rounded.Profit_Weekly,
                Cumulative_Profit |-> cumulative_rounded]),
     global_week_counter |-> NextWeekCounter(st.global_week_counter),
     cumulative_profit_tracker |-> tracker]

\* line 76: for week_in_month_simulated in range(num_weeks_this_month); sts
\* are the loop states the passes so far can have led to
RECURSIVE WeekLoop(_, _, _, _, _)
WeekLoop(sts, week_in_month_simulated, month, rounded, profit) ==
    IF week_in_month_simulated >= num_weeks_this_month
    THEN sts
    ELSE WeekLoop(
            UNION {LET tracker ==
                           AccumulateProfit(st.cumulative_profit_tracker, profit)
                   IN  {WeekBody(st, month, rounded, tracker, c) :
                            c \in RoundPy(tracker, 2)} : st \in sts},
            week_in_month_simulated + 1, month, rounded, profit)

\* line 69: for month in range(1, num_months + 1)
RECURSIVE MonthLoop(_, _, _, _, _, _)
MonthLoop(sts, current_monthly_orders, month, a, fcw, fcw_rounded) ==
    IF month > a.num_months.n
    THEN sts
    ELSE LET grown == GrowMonthlyOrders(current_monthly_orders, month,
                                        a.monthly_growth_rate_pct)
             w == WeekValues(OrdersPerWeek(grown), a, fcw)
         IN  MonthLoop(UNION {WeekLoop(sts, 0, month, rounded, w.profit) :
                                  rounded \in RoundedWeek(w, fcw_rounded)},
                       grown, month + 1, a, fcw, fcw_rounded)

\* the values line 56 tests for None
RequiredInputs(a) ==
    {a.total_fixed_costs_monthly, a.price_per_order, a.variable_cost,
     a.initial_monthly_orders, a.num_months}

\* line 56: an input is None, or the starting volume is negative
ProjectionInputsRejected(a) ==
    \/ \E v \in RequiredInputs(a) : IsNone(v)
    \/ Lt(a.initial_monthly_orders, Num(0))

\* line 57: initial_monthly_orders == 0 and total_fixed_costs_monthly == 0
ZeroOrdersAndZeroFixedCosts(a) ==
    /\ PyEq(a.initial_monthly_orders, Num(0))
    /\ PyEq(a.total_fixed_costs_monthly, Num(0))

\* lines 61-95 reached with an input that is None: range(1, None + 1) at line
\* 69, or the product with None at lines 78-79 in the first week, is a TypeError
RaisesTypeError(a) ==
    \/ IsNone(a.num_months)
    \/ /\ a.num_months.n >= 1
       /\ (IsNone(a.price_per_order) \/ IsNone(a.variable_cost))

\* lines 61-95 for inputs that are all numbers: the DataFrames the call can
\* return (their rows, <<>> for an empty one)
ProjectionData(a) ==
    LET fcw == fixed_costs_weekly(a.total_fixed_costs_monthly)
    IN  UNION {{st.projection_data :
                   st \in MonthLoop({[projection_data |-> <<>>,
                                      global_week_counter |-> 1,
                                      cumulative_profit_tracker |-> Float(Num(0))]},
                                    Float(a.initial_monthly_orders), 1, a, fcw,
                                    fcw_rounded)} :
               fcw_rounded \in RoundPy(fcw, 2)}

\* the ways a call can end: with the DataFrame returned (<<>> for the empty
\* pd.DataFrame()), or with the exception raised
generate_projections(a) ==
    IF ProjectionInputsRejected(a) /\ ~ZeroOrdersAndZeroFixedCosts(a)
    THEN {[exc |-> "none", df |-> <<>>]}
    ELSE IF RaisesTypeError(a)
    THEN {[exc |-> "TypeError", df |-> <<>>]}
    ELSE {[exc |-> "none", df |-> df] : df \in ProjectionData(a)}

(***************************************************************************)
(* find_time_to_positive_profit                                            *)
(***************************************************************************)
\* line 101 mutated to the strict comparison
IsPositiveRowStrict(row) == Lt(Num(0), row.Cumulative_Profit)

\* line 101: Cumulative_Profit >= 0
IsPositiveRow(row) == Le(Num(0), row.Cumulative_Profit)

\* returns <<week, month, status>>
find_time_to_positive_profit(projections_df) ==
    IF projections_df = <<>>
    THEN <<None, None, None>>
    ELSE LET positive_profit_rows ==
                 {i \in 1..Len(projections_df) : IsPositiveRow(projections_df[i])}
         IN  IF positive_profit_rows = {}
             THEN <<None, None, Str("Not Reached")>>
             ELSE LET first_positive_week_index ==
                          CHOOSE i \in positive_profit_rows :
                              \A j \in positive_profit_rows : i <= j
                      first_positive_week_data ==
                          projections_df[first_positive_week_index]
                  IN  <<first_positive_week_data.Global_Week,
                        first_positive_week_data.Month, Str("Reached")>>

(***************************************************************************)
(* monthly_summary: projections_df.groupby('Month').agg(...).reset_index() *)
(***************************************************************************)
\* the rows of one group, in the order of the DataFrame
GroupRows(projections_df, month) ==
    SelectSeq(projections_df, LAMBDA row : row.Month = month)

\* the group keys in ascending order (groupby sorts them)
RECURSIVE SortedKeys(_)
SortedKeys(keys) ==
    IF keys = {}
    THEN <<>>
    ELSE LET least == CHOOSE k \in keys : \A other \in keys : Le(k, other)
         IN  <<least>> \o SortedKeys(keys \ {least})

\* the aggregation 'sum' of one column over the rows of a group
RECURSIVE SumOfColumn(_, _)
SumOfColumn(rows, column) ==
    IF rows = <<>>
    THEN Num(0)
    ELSE Add(SumOfColumn(SubSeq(rows, 1, Len(rows) - 1), column),
             rows[Len(rows)][column])

\* the aggregation 'last' mutated into 'first'
FirstOfColumn(rows, column) == rows[1][column]

\* the aggregation 'last' of one column over the rows of a group
LastOfColumn(rows, column) == rows[Len(rows)][column]

\* lines 349-355: one row for each Month of a DataFrame that is not empty
monthly_summary(projections_df) ==
    LET months == SortedKeys({projections_df[i].Month :
                                 i \in 1..Len(projections_df)})
    IN  [g \in 1..Len(months) |->
            LET rows == GroupRows(projections_df, months[g])
            IN  [Month |-> months[g],
                 Total_Orders |-> SumOfColumn(rows, "Projected_Orders_Weekly"),
                 Total_Revenue |-> SumOfColumn(rows, "Revenue_Weekly"),
                 Total_Variable_Costs |->
                     SumOfColumn(rows, "Variable_Costs_Weekly"),
                 Total_Fixed_Costs |-> SumOfColumn(rows, "Fixed_Costs_Weekly"),
                 Total_Profit |-> SumOfColumn(rows, "Profit_Weekly"),
                 End_Cumulative_Profit |->
                     LastOfColumn(rows, "Cumulative_Profit")]]

(***************************************************************************)
(* Calls of the projection engine: generate_projections with any arguments *)
(* of the input sets, then find_time_to_positive_profit on its DataFrame   *)
(* or, when it has rows (line 336), the monthly summary of it.             *)
(***************************************************************************)
MaxProjectionAmount == 3

MaxOrders == 2

MaxMonths == 2

\* the breakeven volume of the default inputs (lines 240 and 309-310)
DefaultStartOrders ==
    LET result == CHOOSE r \in calculate_breakeven(Num(DefaultFixedCosts),
                      Num(DefaultPrice), Num(DefaultVariableCost)) : TRUE
    IN  result[1]

\* a halving, no growth, an inexact factor 1.05 and a doubling
GrowthRates == {Num(-50), Num(0), Num(5), Num(100)}

Numbers(low, high, defaults) == {Num(i) : i \in (low..high) \cup defaults}

ProjectionArgs(fc, p, v, start, months, g) ==
    [total_fixed_costs_monthly |-> fc, price_per_order |-> p,
     variable_cost |-> v, initial_monthly_orders |-> start,
     num_months |-> months, monthly_growth_rate_pct |-> g]

\* arguments that are all numbers, the starting volume possibly negative
NumericProjectionInputs ==
    {ProjectionArgs(fc, p, v, start, months, g) :
        fc \in Numbers(0, MaxProjectionAmount, {}),
        p \in Numbers(1, MaxProjectionAmount, {}),
        v \in Numbers(0, MaxProjectionAmount, {}),
        start \in Numbers(-1, MaxOrders, {}),
        months \in Numbers(0, MaxMonths, {}),
        g \in GrowthRates}

\* the default inputs of the form, started at their breakeven volume of 200
DefaultProjectionInputs ==
    {ProjectionArgs(Num(DefaultFixedCosts), Num(DefaultPrice),
                    Num(DefaultVariableCost), DefaultStartOrders, months, g) :
        months \in Numbers(0, MaxMonths, {}),
        g \in GrowthRates}

\* arguments of which any may be None
OptionalProjectionInputs ==
    {ProjectionArgs(fc, p, v, start, months, g) :
        fc \in {None, Num(0), Num(1)},
        p \in {None, Num(1)},
        v \in {None, Num(0)},
        start \in {None, Num(-1), Num(0), Num(1)},
        months \in {None, Num(0), Num(1)},
        g \in {Num(0)}}

CallGenerateProjections ==
    \E a \in NumericProjectionInputs \cup DefaultProjectionInputs
              \cup OptionalProjectionInputs :
        \E out \in generate_projections(a) :
            /\ fn = "none"
            /\ fn' = "generate_projections"
            /\ args' = a
            /\ ret' = out.df
            /\ exc' = out.exc
            /\ UNCHANGED saved_scenario

CallFindTimeToPositiveProfit ==
    /\ fn = "generate_projections"
    /\ exc = "none"
    /\ fn' = "find_time_to_positive_profit"
    /\ args' = [projections_df |-> ret]
    /\ ret' = find_time_to_positive_profit(ret)
    /\ exc' = "none"
    /\ UNCHANGED saved_scenario

\* lines 336 and 349-355
CallMonthlySummary ==
    /\ fn = "generate_projections"
    /\ exc = "none"
    /\ ret # <<>>
    /\ fn' = "monthly_summary"
    /\ args' = [projections_df |-> ret]
    /\ ret' = monthly_summary(ret)
    /\ exc' = "none"
    /\ UNCHANGED saved_scenario

NextProjection ==
    \/ CallGenerateProjections
    \/ CallFindTimeToPositiveProfit
    \/ CallMonthlySummary

SpecProjection == Init /\ [][NextProjection]_vars

(***************************************************************************)
(* The Streamlit script (lines 110-496).  Streamlit runs the whole script  *)
(* again after every change of a widget and after every click of a button; *)
(* st.session_state.saved_scenario alone lasts from one run to the next.   *)
(* w holds the values of the sidebar widgets of the run.                   *)
(***************************************************************************)
\* a key that a dict does not hold
Missing == [t |-> "missing"]

FixedAmount == Str("Fixed Amount (MAD )")

Percentage == Str("Percentage (%)")

\* lines 138-139
total_fixed_costs_monthly(w) ==
    Add(w.marketer_payment_monthly,
        Mul(w.ads_spend_daily, Num(AVG_DAYS_PER_MONTH)))

\* lines 167-177; the percentages of the input sets are those whose hundredth
\* is a float that holds it exactly
variable_cost_per_order_calculated(w) ==
    IF w.vc_input_method = FixedAmount
    THEN w.variable_cost_amount
    ELSE IF w.vc_input_method = Percentage /\ Lt(Num(0), w.price_per_order)
    THEN Mul(w.price_per_order, Div(w.variable_cost_percentage, Num(100)))
    ELSE Num(0)

\* lines 204-221: the dict stored by the Save button, without the key 'results'
SavedScenario(w) ==
    [inputs |-> w,
     calculated |->
        [total_fixed_costs_monthly |-> total_fixed_costs_monthly(w),
         variable_cost_per_order_calculated |->
             variable_cost_per_order_calculated(w)],
     results |-> Missing]

\* the test of lines 244 and 405 mutated to overwrite results that are there
ResultsWantedAlways(saved) == saved # None

\* lines 244 and 405: a scenario is saved and holds no 'results' yet
ResultsWanted(saved) == saved # None /\ saved.results = Missing

\* lines 245 and 406-417 (a deepcopy of a dict of numbers and strings is the
\* same value)
PopulateResults(saved, results) ==
    IF ResultsWanted(saved)
    THEN [saved EXCEPT !.results = results]
    ELSE saved

\* lines 261 and 285: orders * price_per_order of an order count that is
\* neither None nor infinite
RevenueOf(orders, price_per_order) ==
    IF IsNone(orders) THEN None
    ELSE IF orders = Inf THEN None
    ELSE Mul(orders, price_per_order)

IsUsableOrders(orders) == ~IsNone(orders) /\ orders # Inf

\* lines 304-314 mutated to look at the breakeven orders first
projection_start_orders_BreakevenFirst(orders_for_profit, breakeven_orders_monthly) ==
    IF IsUsableOrders(breakeven_orders_monthly) /\ Le(Num(0), breakeven_orders_monthly)
    THEN breakeven_orders_monthly
    ELSE IF IsUsableOrders(orders_for_profit) /\ Lt(Num(0), orders_for_profit)
    THEN orders_for_profit
    ELSE None

\* lines 304-314
projection_start_orders(orders_for_profit, breakeven_orders_monthly) ==
    IF IsUsableOrders(orders_for_profit) /\ Lt(Num(0), orders_for_profit)
    THEN orders_for_profit
    ELSE IF IsUsableOrders(breakeven_orders_monthly) /\ Le(Num(0), breakeven_orders_monthly)
    THEN breakeven_orders_monthly
    ELSE None

\* lines 304-314: the kind of starting point named in projection_basis
projection_basis(orders_for_profit, breakeven_orders_monthly) ==
    IF IsUsableOrders(orders_for_profit) /\ Lt(Num(0), orders_for_profit)
    THEN Str("Target Profit")
    ELSE IF IsUsableOrders(breakeven_orders_monthly) /\ Le(Num(0), breakeven_orders_monthly)
    THEN Str("Breakeven Point")
    ELSE Str("Cannot determine valid starting point")

\* lines 274-278: the results calculate_orders_for_profit can give, None
\* without a target
OrdersForProfitOfRun(w) ==
    IF Lt(Num(0), w.target_profit_monthly)
    THEN calculate_orders_for_profit(total_fixed_costs_monthly(w),
             w.price_per_order, variable_cost_per_order_calculated(w),
             w.target_profit_monthly)
    ELSE {None}

\* lines 320-338: the call of generate_projections, made when there is a
\* starting volume; call is None when it is not made
ProjectionsOfRun(w, start) ==
    IF IsNone(start)
    THEN {[call |-> None, exc |-> "none", df |-> <<>>]}
    ELSE LET a == ProjectionArgs(total_fixed_costs_monthly(w),
                      w.price_per_order, variable_cost_per_order_calculated(w),
                      start, w.num_months, w.monthly_growth_rate)
         IN  {[call |-> a, exc |-> out.exc, df |-> out.df] :
                 out \in generate_projections(a)}

\* lines 336-341
TimeToPositiveOfRun(projections_df) ==
    IF projections_df = <<>>
    THEN None
    ELSE find_time_to_positive_profit(projections_df)

\* line 341
final_cumulative_profit(projections_df) ==
    IF projections_df = <<>>
    THEN None
    ELSE projections_df[Len(projections_df)].Cumulative_Profit

\* lines 240-417 of one run that starts with the session state saved: the
\* ways the run can end, each with the values it computed, the exception that
\* ended it and the session state it leaves
Script(w, saved) ==
    LET fixed == total_fixed_costs_monthly(w)
        variable == variable_cost_per_order_calculated(w)
    IN  UNION {
          IF IsNone(variable) \/ IsNone(be[2])
          THEN {[results |-> [error |-> Str("Invalid input for calculation")],
                 call |-> None, time_to_positive |-> None, exc |-> "none",
                 stopped |-> TRUE,
                 saved |-> PopulateResults(saved,
                     [error |-> Str("Invalid input for calculation")])]}
          ELSE UNION {
                 LET start == projection_start_orders(ofp, be[1])
                 IN  {LET results ==
                              [contribution_margin |-> be[2],
                               breakeven_orders_monthly |-> be[1],
                               breakeven_revenue |->
                                   RevenueOf(be[1], w.price_per_order),
                               orders_for_profit |-> ofp,
                               profit_goal_revenue |->
                                   RevenueOf(ofp, w.price_per_order),
                               projection_basis |-> projection_basis(ofp, be[1]),
                               projection_start_orders |-> start,
                               final_cumulative_profit |->
                                   final_cumulative_profit(pr.df)]
                      IN  [results |-> results,
                           call |-> pr.call,
                           time_to_positive |-> TimeToPositiveOfRun(pr.df),
                           exc |-> pr.exc,
                           stopped |-> FALSE,
                           saved |-> IF pr.exc = "none"
                                     THEN PopulateResults(saved, results)
                                     ELSE saved] :
                      pr \in ProjectionsOfRun(w, start)} :
                 ofp \in OrdersForProfitOfRun(w)} :
          be \in calculate_breakeven(fixed, w.price_per_order, variable)}

(***************************************************************************)
(* Runs of the script.  The widget values are within the limits of the     *)
(* widgets: amounts >= 0, a price >= 0.01, at least one month.             *)
(***************************************************************************)
MaxWidgetAmount == 1

DefaultVariableCostPercentage == 85

Widgets(marketer, ads, price, method, amount, percentage, target, months, growth) ==
    [marketer_payment_monthly |-> marketer, ads_spend_daily |-> ads,
     price_per_order |-> price, vc_input_method |-> method,
     variable_cost_amount |-> amount, variable_cost_percentage |-> percentage,
     target_profit_monthly |-> target, num_months |-> months,
     monthly_growth_rate |-> growth]

\* small amounts, the variable cost below, at and above the price of 2
SmallWidgets ==
    {Widgets(marketer, Num(0), Num(2), FixedAmount, amount,
             Num(DefaultVariableCostPercentage), target, Num(1), Num(0)) :
        marketer \in Numbers(0, MaxWidgetAmount, {}),
        amount \in Numbers(1, MaxWidgetAmount + 2, {}),
        target \in Numbers(0, 1, {})}

\* the variable cost as a percentage of the price: a half and the whole of it
PercentageWidgets ==
    {Widgets(Num(1), Num(0), Num(2), Percentage, Num(0), percentage, target,
             Num(1), Num(0)) :
        percentage \in {Num(50), Num(100)},
        target \in Numbers(0, 1, {})}

\* a price with cents
CentWidgets ==
    {Widgets(Num(1), Num(0), CentPrice, FixedAmount, Num(2),
             Num(DefaultVariableCostPercentage), target, Num(1), Num(0)) :
        target \in Numbers(0, 1, {})}

\* the default values of the form, with and without the target profit
DefaultWidgets ==
    {Widgets(Num(DefaultMarketerPayment), Num(DefaultAdsSpendDaily),
             Num(DefaultPrice), FixedAmount, Num(DefaultVariableCost),
             Num(DefaultVariableCostPercentage), target, Num(MaxMonths), growth) :
        target \in Numbers(0, 0, {DefaultTargetProfit}),
        growth \in {Num(0), Num(5)}}

WidgetValues ==
    SmallWidgets \cup PercentageWidgets \cup CentWidgets \cup DefaultWidgets

\* the values a run leaves behind
EndOfRun(w, button, out) ==
    /\ fn' = "script"
    /\ args' = [widgets |-> w, button |-> button]
    /\ ret' = [results |-> out.results, call |-> out.call,
               time_to_positive |-> out.time_to_positive,
               stopped |-> out.stopped]
    /\ exc' = out.exc
    /\ saved_scenario' = out.saved

\* a run after a change of a widget: no button is pressed
RunScript ==
    \E w \in WidgetValues :
        \E out \in Script(w, saved_scenario) :
            EndOfRun(w, "none", out)

\* a run after a click on Save (lines 202-221)
SaveScenario ==
    \E w \in WidgetValues :
        \E out \in Script(w, SavedScenario(w)) :
            EndOfRun(w, "save", out)

\* a run after a click on Clear (lines 223-227): the button is there when a
\* scenario is saved; st.experimental_rerun() starts the script again, with no
\* button pressed
ClearScenario ==
    /\ saved_scenario # None
    /\ \E w \in WidgetValues :
           \E out \in Script(w, None) :
               EndOfRun(w, "clear", out)

NextScript ==
    \/ RunScript
    \/ SaveScenario
    \/ ClearScenario

SpecScript == Init /\ [][NextScript]_vars

(***************************************************************************)
(* Properties of the breakeven engine                                      *)
(***************************************************************************)
IsBreakevenCall == fn = "calculate_breakeven"

IsOrdersForProfitCall == fn = "calculate_orders_for_profit"

\* no argument of the call is None
ArgsPresent == \A k \in DOMAIN args : IsNum(args[k])

\* the arguments pass lines 15-18: price > 0, variable cost >= 0, fixed costs >= 0
ArgsPassPreconditions ==
    /\ ArgsPresent
    /\ Lt(Num(0), args.price_per_order)
    /\ Le(Num(0), args.variable_cost)
    /\ Le(Num(0), args.total_fixed_costs)

ArgMargin == Sub(args.price_per_order, args.variable_cost)

\* r is the integer n, and n is the least integer with n * margin >= amount
IsLeastCover(r, amount, margin) ==
    /\ r.t = "num" /\ r.d = 1
    /\ Le(amount, Mul(r, margin))
    /\ Lt(Mul(Sub(r, Num(1)), margin), amount)

\* C1: for fixedCosts >= 0 and 0 < variableCost < price, calculate_breakeven
\* returns the contribution margin price - variableCost and the order count
\* ceil(fixedCosts / margin): orders * margin >= fixedCosts > (orders - 1) *
\* margin, and fixedCosts = 0 gives 0 orders.
C1_BreakevenCeiling ==
    (/\ IsBreakevenCall
     /\ ArgsPassPreconditions
     /\ Lt(Num(0), args.variable_cost)
     /\ Lt(args.variable_cost, args.price_per_order))
    => /\ exc = "none"
       /\ ret[2] = ArgMargin
       /\ IsLeastCover(ret[1], args.total_fixed_costs, ArgMargin)
       /\ (args.total_fixed_costs = Num(0) => ret[1] = Num(0))

\* C2: for fixedCosts >= 0, 0 <= variableCost < price and targetProfit > 0,
\* calculate_orders_for_profit returns the least integer n with
\* n * (price - variableCost) >= fixedCosts + targetProfit; the inputs
\* 12000, 450, 390, 1000 give 217.
C2_OrdersForProfitCeiling ==
    (/\ IsOrdersForProfitCall
     /\ ArgsPassPreconditions
     /\ Lt(args.variable_cost, args.price_per_order)
     /\ Lt(Num(0), args.target_profit))
    => /\ exc = "none"
       /\ IsLeastCover(ret[1],
                       Add(args.total_fixed_costs, args.target_profit),
                       ArgMargin)
       /\ (/\ args.total_fixed_costs = Num(12000)
           /\ args.price_per_order = Num(450)
           /\ args.variable_cost = Num(390)
           /\ args.target_profit = Num(1000)) => ret[1] = Num(217)

\* an input is missing, or price <= 0, or variableCost < 0, or fixedCosts < 0
ArgsFailPreconditions ==
    \/ IsNone(args.total_fixed_costs)
    \/ IsNone(args.price_per_order)
    \/ IsNone(args.variable_cost)
    \/ (IsOrdersForProfitCall /\ IsNone(args.target_profit))
    \/ (/\ ArgsPresent
        /\ \/ args.price_per_order.n <= 0
           \/ args.variable_cost.n < 0
           \/ args.total_fixed_costs.n < 0)

\* C3: on a precondition failure neither function raises: calculate_breakeven
\* returns None for both the orders and the contribution margin, and
\* calculate_orders_for_profit returns None; calculate_orders_for_profit
\* returns None as well whenever targetProfit <= 0.
C3_PreconditionFailureIsUndefined ==
    /\ (IsBreakevenCall /\ ArgsFailPreconditions)
       => (exc = "none" /\ ret = <<None, None>>)
    /\ (IsOrdersForProfitCall /\ ArgsFailPreconditions)
       => (exc = "none" /\ ret = <<None>>)
    /\ (/\ IsOrdersForProfitCall
        /\ IsNum(args.target_profit)
        /\ args.target_profit.n <= 0)
       => (exc = "none" /\ ret = <<None>>)

\* a call with price 0 and the other inputs valid returns the undefined result
C3_Witness ==
    /\ IsBreakevenCall
    /\ ArgsPresent
    /\ args.price_per_order.n = 0
    /\ args.variable_cost.n >= 0
    /\ args.total_fixed_costs.n >= 0
    /\ ret = <<None, None>>

\* C4: for otherwise valid inputs with variableCost = price, calculate_breakeven
\* reports the order count as the infinite sentinel and
\* calculate_orders_for_profit reports infinite for any positive target, an
\* outcome distinct from the undefined one.
C4_ZeroMarginIsInfinite ==
    /\ (/\ IsBreakevenCall
        /\ ArgsPassPreconditions
        /\ args.variable_cost = args.price_per_order)
       => (ret[1] = Inf /\ ret[1] # None)
    /\ (/\ IsOrdersForProfitCall
        /\ ArgsPassPreconditions
        /\ args.target_profit.n > 0
        /\ args.variable_cost = args.price_per_order)
       => (ret[1] = Inf /\ ret[1] # None)

IsProjectionCall == fn = "generate_projections"

IsFindTimeCall == fn = "find_time_to_positive_profit"

\* a call with every argument a number, a starting volume >= 0 and N >= 1 months
IsValidProjection ==
    /\ IsProjectionCall
    /\ ArgsPresent
    /\ args.initial_monthly_orders.n >= 0
    /\ args.num_months.n >= 1

MonthOfWeek(k) == (k + 3) \div 4

RECURSIVE RatPow(_, _)
RatPow(x, k) == IF k = 0 THEN Num(1) ELSE Mul(x, RatPow(x, k - 1))

\* start * (1 + growthRate/100)^(m-1)
CompoundedVolume(m) ==
    Mul(args.initial_monthly_orders,
        RatPow(Rat(100 + args.monthly_growth_rate_pct.n, 100), m - 1))

\* the weekly profit of month m before any rounding:
\* volume/4 * (price - variableCost) - fixedCosts * 12/52
ExactWeeklyProfit(m) ==
    Sub(Mul(Div(CompoundedVolume(m), Num(4)),
            Sub(args.price_per_order, args.variable_cost)),
        Rat(12 * args.total_fixed_costs_monthly.n, 52))

RECURSIVE ExactCumulativeProfit(_)
ExactCumulativeProfit(k) ==
    IF k = 0 THEN Num(0)
    ELSE Add(ExactCumulativeProfit(k - 1), ExactWeeklyProfit(MonthOfWeek(k)))

\* |x - y| <= tol
Within(x, y, tol) == Le(Sub(x, y), tol) /\ Le(Neg(tol), Sub(x, y))

\* x is y rounded to a multiple of 1/scale
IsRounded(x, y, scale) ==
    /\ scale % x.d = 0
    /\ Within(x, y, Rat(1, 2 * scale))

\* C6: generate_projections fully succeeds or fully fails without raising: with
\* a negative starting volume or any required input None it returns the empty
\* row sequence, whatever the other inputs are.
C6_InvalidInputGivesEmpty ==
    (/\ IsProjectionCall
     /\ \/ \E v \in RequiredInputs(args) : IsNone(v)
        \/ args.initial_monthly_orders.n < 0)
    => (exc = "none" /\ ret = <<>>)

\* C7: for valid inputs with N >= 1 months generate_projections returns 4*N
\* rows; the k-th row has globalWeek = k and month = ceil(k / 4), and every
\* month has exactly 4 rows.
C7_FourRowsPerMonth ==
    IsValidProjection
    => /\ exc = "none"
       /\ Len(ret) = 4 * args.num_months.n
       /\ \A k \in 1..Len(ret) :
            /\ ret[k].Global_Week = Num(k)
            /\ ret[k].Month = Num(MonthOfWeek(k))
       /\ \A m \in 1..args.num_months.n :
            Cardinality({k \in 1..Len(ret) : ret[k].Month = Num(m)}) = 4

\* a two-month projection: 8 rows, week 5 opens month 2
C7_Witness ==
    /\ IsValidProjection
    /\ Len(ret) = 8
    /\ ret[4].Month = Num(1)
    /\ ret[5].Month = Num(2)
    /\ ret[5].Global_Week = Num(5)

C9_CumulativeIsSumOfRowProfits ==
    (IsValidProjection /\ exc = "none")
    => /\ ret[1].Cumulative_Profit = ret[1].Profit_Weekly
       /\ \A w \in 1..(Len(ret) - 1) :
            Sub(ret[w + 1].Cumulative_Profit, ret[w].Cumulative_Profit)
                = ret[w + 1].Profit_Weekly

\* C9 amended: each row's profit is revenue - variableCosts - fixedCostsWeekly
\* computed before rounding and then rounded to 2 decimals, and its
\* cumulativeProfit is the running sum of the unrounded weekly profits rounded
\* to 2 decimals; so the first row has cumulativeProfit = profit and
\* cumulativeProfit[w+1] - cumulativeProfit[w] is within 0.01 of the profit
\* field of row w+1.
C9_CumulativeIsRoundedRunningSum ==
    (IsValidProjection /\ exc = "none")
    => /\ \A k \in 1..Len(ret) :
            /\ IsRounded(ret[k].Profit_Weekly,
                         ExactWeeklyProfit(MonthOfWeek(k)), 100)
            /\ IsRounded(ret[k].Cumulative_Profit, ExactCumulativeProfit(k), 100)
       /\ ret[1].Cumulative_Profit = ret[1].Profit_Weekly
       /\ \A w \in 1..(Len(ret) - 1) :
            Within(Sub(ret[w + 1].Cumulative_Profit, ret[w].Cumulative_Profit),
                   ret[w + 1].Profit_Weekly, Rat(1, 100))

\* a projection in which some week's cumulativeProfit step differs from the
\* row's profit field by a cent
C9_Witness ==
    /\ IsValidProjection
    /\ exc = "none"
    /\ \E w \in 1..(Len(ret) - 1) :
         /\ ret[w + 1].Profit_Weekly # Num(0)
         /\ Sub(ret[w + 1].Cumulative_Profit, ret[w].Cumulative_Profit)
                # ret[w + 1].Profit_Weekly

\* C10: on a non-empty row sequence find_time_to_positive_profit returns the
\* globalWeek and month of the first row with cumulativeProfit >= 0 and the
\* status "Reached"; if no row has cumulativeProfit >= 0 it returns the status
\* "Not Reached" with no week and no month, and raises nothing.
C10_FirstNonNegativeWeek ==
    (IsFindTimeCall /\ args.projections_df # <<>>)
    => LET df == args.projections_df
           reached == {i \in 1..Len(df) :
                          /\ df[i].Cumulative_Profit.n >= 0
                          /\ \A j \in 1..(i - 1) : df[j].Cumulative_Profit.n < 0}
       IN  /\ exc = "none"
           /\ \A i \in reached :
                ret = <<df[i].Global_Week, df[i].Month, Str("Reached")>>
           /\ reached = {} => ret = <<None, None, Str("Not Reached")>>

\* cumulative profit turns non-negative only after the first week
C10_Witness ==
    /\ IsFindTimeCall
    /\ args.projections_df # <<>>
    /\ ret[3] = Str("Reached")
    /\ ret[1].n > 1
    /\ args.projections_df[1].Cumulative_Profit.n < 0

IsMonthlySummaryCall == fn = "monthly_summary"

\* the sum of a column over the four weeks 4m-3 .. 4m of month m
SumOfMonth(df, m, column) ==
    Add(Add(Add(df[4 * m - 3][column], df[4 * m - 2][column]),
            df[4 * m - 1][column]),
        df[4 * m][column])

\* C11: the monthly summary of a non-empty projection has exactly one row per
\* month 1..N; the totals of a row for orders, revenue, variable costs, fixed
\* costs and profit are the sums of these fields over the 4 weekly rows of the
\* month, and its ending cumulative profit is the cumulative profit of the
\* last week of the month, the row with Global_Week 4*m.
C11_MonthlySummaryTotals ==
    IsMonthlySummaryCall
    => LET df == args.projections_df
           N == Len(df) \div 4
       IN  /\ exc = "none"
           /\ Len(df) = 4 * N
           /\ Len(ret) = N
           /\ \A m \in 1..N :
                /\ ret[m].Month = Num(m)
                /\ ret[m].Total_Orders =
                       SumOfMonth(df, m, "Projected_Orders_Weekly")
                /\ ret[m].Total_Revenue = SumOfMonth(df, m, "Revenue_Weekly")
                /\ ret[m].Total_Variable_Costs =
                       SumOfMonth(df, m, "Variable_Costs_Weekly")
                /\ ret[m].Total_Fixed_Costs =
                       SumOfMonth(df, m, "Fixed_Costs_Weekly")
                /\ ret[m].Total_Profit = SumOfMonth(df, m, "Profit_Weekly")
                /\ df[4 * m].Global_Week = Num(4 * m)
                /\ ret[m].End_Cumulative_Profit = df[4 * m].Cumulative_Profit

\* a summary of two months whose ending cumulative profits differ from the
\* cumulative profit of the first week of the month
C11_Witness ==
    /\ IsMonthlySummaryCall
    /\ Len(ret) = 2
    /\ ret[1].End_Cumulative_Profit # args.projections_df[1].Cumulative_Profit
    /\ ret[2].End_Cumulative_Profit # args.projections_df[5].Cumulative_Profit
    /\ ret[2].Total_Orders # ret[1].Total_Orders
    /\ ret[1].Total_Profit # Num(0)

\* the starting volume of the call is an order count that calculate_breakeven
\* can return for the fixed costs, price and variable cost of the call
StartsAtBreakeven ==
    \E result \in calculate_breakeven(args.total_fixed_costs_monthly,
                      args.price_per_order, args.variable_cost) :
        result[1] = args.initial_monthly_orders

\* C14: fixed costs are amortized over 52/12 weeks and 4 weeks of a month are
\* simulated, so each week is charged 3/13 and each month 12/13 of the monthly
\* fixed costs; for fixedCosts > 0, 0 <= variableCost < price, a growth rate
\* >= 0 and the calculate_breakeven order count as the starting volume, every
\* weekly profit is >= 0 and find_time_to_positive_profit reports week 1,
\* month 1, "Reached".
C14_BreakevenStartIsProfitable ==
    (/\ IsValidProjection
     /\ Lt(Num(0), args.total_fixed_costs_monthly)
     /\ Le(Num(0), args.variable_cost)
     /\ Lt(args.variable_cost, args.price_per_order)
     /\ Le(Num(0), args.monthly_growth_rate_pct)
     /\ StartsAtBreakeven)
    => /\ exc = "none"
       /\ ret # <<>>
       /\ \A k \in 1..Len(ret) :
            /\ IsRounded(ret[k].Fixed_Costs_Weekly,
                         Mul(args.total_fixed_costs_monthly, Rat(3, 13)), 100)
            /\ Le(Num(0), ret[k].Profit_Weekly)
       /\ find_time_to_positive_profit(ret) = <<Num(1), Num(1), Str("Reached")>>

\* a projection of two months with growth, started at a breakeven volume whose
\* contribution is exactly the fixed costs: its first week already has a
\* profit, the thirteenth part of a quarter of the fixed costs
C14_Witness ==
    /\ IsValidProjection
    /\ Lt(Num(0), args.total_fixed_costs_monthly)
    /\ Lt(args.variable_cost, args.price_per_order)
    /\ Lt(Num(0), args.monthly_growth_rate_pct)
    /\ StartsAtBreakeven
    /\ Mul(args.initial_monthly_orders,
           Sub(args.price_per_order, args.variable_cost))
           = args.total_fixed_costs_monthly
    /\ Len(ret) = 8
    /\ Lt(Num(0), ret[1].Profit_Weekly)
    /\ ret[1].Cumulative_Profit = ret[1].Profit_Weekly

(***************************************************************************)
(* Properties of the script                                                *)
(***************************************************************************)
\* the state is the end of a run that got past the st.stop() of line 246
IsScriptRun == fn = "script" /\ exc = "none" /\ ~ret.stopped

\* an order count that is defined and finite
IsDefinedAndFinite(orders) == orders # None /\ orders # Inf

\* C13: the starting volume of the projection is the orders-for-target-profit
\* result when that is defined, finite and > 0; otherwise the breakeven order
\* count when that is defined, finite and >= 0; otherwise there is none and
\* generate_projections is not called.  generate_projections is never called
\* with an undefined, infinite or negative starting volume.
C13_ProjectionStartOrder ==
    IsScriptRun
    => LET target_orders == ret.results.orders_for_profit
           breakeven_orders == ret.results.breakeven_orders_monthly
           start == ret.results.projection_start_orders
           from_target == /\ IsDefinedAndFinite(target_orders)
                          /\ Lt(Num(0), target_orders)
           from_breakeven == /\ IsDefinedAndFinite(breakeven_orders)
                             /\ Le(Num(0), breakeven_orders)
       IN  /\ from_target => start = target_orders
           /\ (~from_target /\ from_breakeven) => start = breakeven_orders
           /\ (~from_target /\ ~from_breakeven)
              => (start = None /\ ret.call = None)
           /\ start # None
              => /\ ret.call # None
                 /\ ret.call.initial_monthly_orders = start
           /\ ret.call # None
              => /\ IsDefinedAndFinite(ret.call.initial_monthly_orders)
                 /\ IsNum(ret.call.initial_monthly_orders)
                 /\ Le(Num(0), ret.call.initial_monthly_orders)

\* a run with a target profit whose order count, not the smaller breakeven
\* count, started the projection
C13_Witness ==
    /\ IsScriptRun
    /\ Lt(Num(0), args.widgets.target_profit_monthly)
    /\ IsDefinedAndFinite(ret.results.breakeven_orders_monthly)
    /\ ret.results.orders_for_profit # ret.results.breakeven_orders_monthly
    /\ ret.call # None
    /\ ret.call.initial_monthly_orders = ret.results.orders_for_profit

\* a scenario is saved and its results are there
HasResults(saved) == saved # None /\ saved.results # Missing

\* C12: once a scenario is saved and its results are populated, a later run
\* without a click on Save or Clear, whatever the inputs now are, leaves the
\* saved inputs, calculated values and results as they are; only a click on
\* Save replaces the scenario and only a click on Clear removes it.
C12_SavedScenarioFrozen ==
    [][HasResults(saved_scenario)
       => /\ args'.button = "none" => saved_scenario' = saved_scenario
          /\ saved_scenario' # saved_scenario
             => args'.button \in {"save", "clear"}
          /\ (saved_scenario' # saved_scenario /\ saved_scenario' # None)
             => args'.button = "save"
          /\ saved_scenario' = None => args'.button = "clear"]_vars

\* the end of a run without a button, made with other inputs than the saved
\* ones and with other results, while the saved scenario has its results
C12_Witness ==
    /\ IsScriptRun
    /\ args.button = "none"
    /\ HasResults(saved_scenario)
    /\ saved_scenario.inputs # args.widgets
    /\ saved_scenario.results # ret.results
    /\ saved_scenario.calculated.total_fixed_costs_monthly
           = total_fixed_costs_monthly(saved_scenario.inputs)
    /\ saved_scenario.results.projection_start_orders
           # ret.results.projection_start_orders

====
